---- MODULE Spec2Model ----
(***************************************************************************)
(* Models of the executable examples published in the blog's articles:     *)
(*   - the Redux reimplementation (createStore, combineReducers) of        *)
(*     content/blog/how-to-create-your-own-redux/index.md,                 *)
(*   - the command-pattern cart (AddToCart, useCart),                      *)
(*   - the reactivity walkthrough (reactive, track, callEffects, effect),  *)
(*   - the optimistic todo list (TodoListContainer.handleAddTodo),         *)
(*   - the Netflix slider (Slider, Item, useSizeElement, useSliding),       *)
(* and of the blog itself: the articles' front matter and the post page     *)
(* template src/templates/blog-post.js.                                    *)
(* Each example has its own variables, initial condition, next-state       *)
(* relation and specification; a specification leaves the variables of the *)
(* other examples unchanged.                                               *)
(***************************************************************************)
EXTENDS Integers, Sequences, FiniteSets, TLC

\* Bounds of the model.
MaxDispatches == 3
MaxListeners == 3
MaxHistory == 4
MaxEffects == 2
MaxRequests == 3
MaxItems == 4
MaxPresses == 8

VARIABLES
  \* ---- Redux store example
  rootKind,      \* which root reducer the stores were created from
  created,       \* created[s]: createStore has returned store s
  state,         \* state[s]: the `state` variable of store s's closure
  listeners,     \* listeners[s]: the `listeners` array of store s's closure
  nextState,     \* the `nextState` object of the combineReducers closure
  stack,         \* dispatch calls in progress, innermost last
  actions,       \* history: actions[s] are the actions dispatched on s, in order
  reducerCalls,  \* history: reducerCalls[s] counts the root reducer calls made by s
  held,          \* history: a value obtained from getState() and its contents then
  lastCombine,   \* history: the last call of the combined reducer
  lastDone,      \* history: the dispatch that has just returned, until the
                 \* next call from outside
  component,     \* the mounted Connect component: its props, what it rendered
  \* ---- command-pattern cart example
  cart,          \* cart.value of useCart
  history,       \* the `history` array of useCart: the commands invoked
  cartBefore,    \* history: the cart before the last invoke
  cartCalls,     \* history: what the last calls of invoke and undo were
  \* ---- reactivity example
  version,       \* which step of the walkthrough: 2 (one `effects` array and
                 \* currentEffect), 3 (`deps` per property), 4 (per target object)
  props,         \* props[target][key]: the properties of the reactive objects
  deps,          \* the effects collections (`effects`, `deps`): deps[slot] is an
                 \* array of effects, for the slots created so far
  out,           \* out[fn]: the variable effect fn assigns (fullName, welcome...)
  lastAssign,    \* history: the last assignment and the effects it ran, in order
  everRead,      \* history: <<fn, target, key>> for every property read by fn
  \* ---- optimistic todo list example
  todos,         \* this.state.todos of TodoListContainer
  pending,       \* the save requests in flight: their promises are not settled
  requests,      \* how many times saveRequest has been called
  saved,         \* how many todos the API has stored
  lastTodo,      \* history: the last handler that ran and the list before it
  \* ---- blog post page
  page,          \* the article of the page being built and the template's props
  html,          \* what BlogPostTemplate rendered for the page
  \* ---- slider example
  dom,           \* the clientWidth of the container and of an item, and the
                 \* number of children of Slider
  effectsRun,    \* how many renders have had their effects run
  width,         \* useSizeElement: width
  containerWidth,  \* useSliding: containerWidth
  distance,      \* useSliding: distance
  totalInViewport, \* useSliding: totalInViewport
  viewed,        \* useSliding: viewed
  presses,       \* how many times a slide button has been pressed
  currentSlide,  \* Slider: currentSlide
  lastSlide,     \* history: the last call of onSelectSlide or onCloseSlide
  pressing       \* what the visitor does with the slide buttons: presses "any"
                 \* button offered, or works through the pages: "next" until
                 \* the next button is gone, then "prev"

storeVars == <<rootKind, created, state, listeners, nextState, stack, actions,
               reducerCalls, held, lastCombine, lastDone, component>>

cartVars == <<cart, history, cartBefore, cartCalls>>

rxVars == <<version, props, deps, out, lastAssign, everRead>>

todoVars == <<todos, pending, requests, saved, lastTodo>>

blogVars == <<page, html>>

sliderVars == <<dom, effectsRun, width, containerWidth, distance, totalInViewport,
                viewed, presses, currentSlide, lastSlide, pressing>>

vars == <<storeVars, cartVars, rxVars, todoVars, blogVars, sliderVars>>

\* What the actions of one example leave unchanged: the other examples.
notStore == <<cartVars, rxVars, todoVars, blogVars, sliderVars>>
notCart == <<storeVars, rxVars, todoVars, blogVars, sliderVars>>
notRx == <<storeVars, cartVars, todoVars, blogVars, sliderVars>>
notTodo == <<storeVars, cartVars, rxVars, blogVars, sliderVars>>
notBlog == <<storeVars, cartVars, rxVars, todoVars, sliderVars>>
notSlider == <<storeVars, cartVars, rxVars, todoVars, blogVars>>

----------------------------------------------------------------------------
\* JavaScript values, tagged by their type.

Undefined == [tag |-> "undefined"]
Num(n) == [tag |-> "number", n |-> n]
Str(s) == [tag |-> "string", s |-> s]
\* A reference to the one object `nextState` that combineReducers allocates.
Obj == [tag |-> "object"]

None == [tag |-> "none"]

EmptyObject == [k \in {} |-> Undefined]

IsPrefix(a, b) == Len(a) <= Len(b) /\ \A i \in 1..Len(a) : a[i] = b[i]

----------------------------------------------------------------------------
\* ---- Redux store example: the inputs

Stores == {1, 2}

\* An action is represented by its `type`; the action {} has none.
NoType == "undefined"
ActionTypes == {"INCREMENT", "DECREMENT"}

\* The reducer of the Counter application: increment and decrement.
counter(st, action) ==
  LET s == IF st = Undefined THEN Num(0) ELSE st
  IN  IF action = "INCREMENT" THEN Num(s.n + 1)
      ELSE IF action = "DECREMENT" THEN Num(s.n - 1)
      ELSE s

\* A reducer of a second, independent part of the state, as combineReducers
\* is meant for: it keeps the type of the last action, so that the order of
\* the actions shows in the state.
lastAction(st, action) ==
  LET s == IF st = Undefined THEN Str("none") ELSE st
  IN  IF action = NoType THEN s ELSE Str(action)

\* The object passed to combineReducers, in the order of Object.keys: two
\* reducer functions and one entry that is not a function.
reducers ==
  << [key |-> "counter", isFunction |-> TRUE],
     [key |-> "lastAction", isFunction |-> TRUE],
     [key |-> "version", isFunction |-> FALSE] >>

\* reducers[reducerKey](state, action)
ReducerApply(reducerKey, st, action) ==
  IF reducerKey = "counter" THEN counter(st, action) ELSE lastAction(st, action)

----------------------------------------------------------------------------
\* ---- combineReducers

\* Object.keys(reducerFunctions): the keys whose entry is a function.
reducerFunctionsKeys ==
  LET fns == SelectSeq(reducers, LAMBDA r : r.isFunction)
  IN  [i \in 1..Len(fns) |-> fns[i].key]

\* state[reducerKey] as the combined reducer reads it: `state` is {} when the
\* argument is undefined, and otherwise the object the argument refers to,
\* which is nextState itself, read at the moment of the call of the reducer.
SliceNextState(stateArg, reducerKey, heap) ==
  IF reducerKey \in DOMAIN heap THEN heap[reducerKey] ELSE Undefined

Slice(stateArg, reducerKey, heap) ==
  IF stateArg = Obj /\ reducerKey \in DOMAIN heap
  THEN heap[reducerKey]
  ELSE Undefined

\* The forEach of the combined reducer over `keys`: every reducer is called
\* with its slice and the action and its result is stored in nextState.
\* Returns nextState after the loop and the calls made (key and slice given).
RECURSIVE combination(_, _, _, _)
combination(keys, stateArg, action, heap) ==
  IF keys = <<>> THEN [nextState |-> heap, calls |-> <<>>]
  ELSE LET reducerKey == Head(keys)
           slice == Slice(stateArg, reducerKey, heap)
           written == (reducerKey :> ReducerApply(reducerKey, slice, action)) @@ heap
           rest == combination(Tail(keys), stateArg, action, written)
       IN  [nextState |-> rest.nextState,
            calls |-> <<[key |-> reducerKey, slice |-> slice]>> \o rest.calls]

\* rootReducer(state, action): the value returned, nextState afterwards and
\* the calls of the slice reducers.
rootReducer(kind, stateArg, action, heap) ==
  IF kind = "plain"
  THEN [value |-> counter(stateArg, action), nextState |-> heap, calls |-> <<>>]
  ELSE LET r == combination(reducerFunctionsKeys, stateArg, action, heap)
       IN  [value |-> Obj, nextState |-> r.nextState, calls |-> r.calls]

----------------------------------------------------------------------------
\* ---- createStore

\* What a state value shows when it is read.
Contents(v) == IF v = Obj THEN nextState ELSE v

\* state.counter (or state itself under the plain counter reducer)
CounterOf(s) ==
  IF rootKind = "plain" THEN state[s].n ELSE nextState["counter"].n

\* The listeners passed to subscribe: one that only reads the state (as the
\* listener of Connect, which calls setState), one that subscribes a further
\* listener when it is called, and one that dispatches INCREMENT when it is
\* called with a counter of 1.
ListenerKinds == {"render", "resubscribe", "redispatch"}

\* ---- connect (the Counter component of the article's demo, connected)

\* mapStateToProps and mapDispatchToProps of the connected Counter.
mapStateToProps(st) == [counter |-> st["counter"]]

mapDispatchToProps(s) ==
  [increment |-> [dispatch |-> s, type |-> "INCREMENT"],
   decrement |-> [dispatch |-> s, type |-> "DECREMENT"]]

\* The props given to the connected component where it is used; the second
\* has a prop of the name mapStateToProps produces.
OwnProps ==
  {[title |-> Str("Counter")],
   [title |-> Str("Counter"), counter |-> Str("own")]}

\* this.props of Connect: <Connect {...props} store={store} />
ConnectThisProps(own, s) == [store |-> s] @@ own

\* The props Connect.render passes to the wrapped component: this.props, then
\* mapStateToProps(store.getState()), then mapDispatchToProps(store.dispatch);
\* a later spread overrides an earlier one. The variant spreads this.props last.
ConnectPropsOwnLast(own, s) ==
  ConnectThisProps(own, s) @@ mapDispatchToProps(s)
    @@ mapStateToProps(Contents(state[s]))

ConnectProps(own, s) ==
  mapDispatchToProps(s) @@ mapStateToProps(Contents(state[s]))
    @@ ConnectThisProps(own, s)

\* listener(state): the argument is the closure's `state` when the listener is
\* called. The variant passes what the reducer returned to this dispatch.
ListenerArgOfFrame(f, st) == f.reduced

ListenerArg(f, st) == st[f.store]

\* The numbers the bounds of the model limit: the listeners subscribed to
\* all stores and the actions dispatched on them, createStore's own included.
Subscribed == Len(listeners[1]) + Len(listeners[2])
Dispatched == Len(actions[1]) + Len(actions[2])

\* The elements listeners.forEach visits: those present when forEach begins.
ForEachRangeShort(list) == IF Len(list) = 0 THEN 0 ELSE Len(list) - 1

ForEachRange(list) == Len(list)

\* state = rootReducer(state, action)
DispatchTwice(kind, stateArg, action, heap) ==
  LET once == rootReducer(kind, stateArg, action, heap)
  IN  rootReducer(kind, once.value, action, once.nextState)

dispatchReduce(kind, stateArg, action, heap) ==
  rootReducer(kind, stateArg, action, heap)

\* dispatch(action) on store s up to the start of listeners.forEach, called
\* with `callers` as the dispatch calls in progress and `ls` as the listeners.
BeginDispatch(s, action, callers, ls) ==
  LET r == dispatchReduce(rootKind, state[s], action, nextState)
  IN  /\ state' = [state EXCEPT ![s] = r.value]
      /\ nextState' = r.nextState
      /\ stack' = Append(callers,
                     [store |-> s, n |-> ForEachRange(ls), idx |-> 1,
                      start |-> ls, called |-> <<>>,
                      reduced |-> r.value, passed |-> <<>>])
      /\ actions' = [actions EXCEPT ![s] = Append(@, action)]
      /\ reducerCalls' = [reducerCalls EXCEPT ![s] = @ + 1]
      /\ lastCombine' =
           IF rootKind = "plain" THEN lastCombine
           ELSE [stateArg |-> state[s],
                 before |-> nextState,
                 action |-> action,
                 calls |-> r.calls,
                 result |-> r.nextState]

\* createStore(rootReducer): fresh state and listeners, then dispatch({}).
CreateStore(s) ==
  /\ UNCHANGED notStore
  /\ stack = <<>>
  /\ ~created[s]
  /\ created' = [created EXCEPT ![s] = TRUE]
  /\ BeginDispatch(s, NoType, stack, listeners[s])
  /\ lastDone' = None
  /\ UNCHANGED <<rootKind, listeners, held, component>>

\* store.dispatch(action), called from outside reducers and listeners.
Dispatch(s, action) ==
  /\ UNCHANGED notStore
  /\ stack = <<>>
  /\ created[s]
  /\ Dispatched < MaxDispatches
  /\ BeginDispatch(s, action, stack, listeners[s])
  /\ lastDone' = None
  /\ UNCHANGED <<rootKind, created, listeners, held, component>>

\* store.subscribe(listener), called from outside reducers and listeners.
Subscribe(s, listener) ==
  /\ UNCHANGED notStore
  /\ stack = <<>>
  /\ created[s]
  /\ Subscribed < MaxListeners
  /\ listeners' = [listeners EXCEPT ![s] = Append(@, listener)]
  /\ lastDone' = None
  /\ UNCHANGED <<rootKind, created, state, nextState, stack, actions,
                 reducerCalls, held, lastCombine, component>>

\* store.getState(): the caller keeps the value returned. One value is kept
\* in a behaviour; getState itself changes nothing.
GetState(s) ==
  /\ UNCHANGED notStore
  /\ stack = <<>>
  /\ created[s]
  /\ held = None
  /\ held' = [store |-> s, value |-> state[s], contents |-> Contents(state[s])]
  /\ lastDone' = None
  /\ UNCHANGED <<rootKind, created, state, listeners, nextState, stack, actions,
                 reducerCalls, lastCombine, component>>

\* One step of listeners.forEach(listener => listener(state)) of the innermost
\* dispatch: the next listener is called and runs to its end or to a dispatch
\* of its own.
CallListener ==
  /\ UNCHANGED notStore
  /\ stack # <<>>
  /\ LET f == stack[Len(stack)]
         s == f.store
     IN  /\ f.idx <= f.n
         /\ LET listener == listeners[s][f.idx]
                stepped == [stack EXCEPT ![Len(stack)] =
                              [f EXCEPT !.idx = f.idx + 1,
                                        !.called = Append(f.called, listener),
                                        !.passed = Append(f.passed,
                                           [arg |-> ListenerArg(f, state),
                                            getState |-> state[s]])]]
            IN  CASE listener = "redispatch" /\ CounterOf(s) = 1 ->
                       \* the listener dispatches from inside the notification
                       /\ BeginDispatch(s, "INCREMENT", stepped, listeners[s])
                       /\ UNCHANGED <<rootKind, created, listeners, held, lastDone, component>>
                  [] listener = "resubscribe" /\ Subscribed < MaxListeners ->
                       \* the listener subscribes another listener
                       /\ listeners' = [listeners EXCEPT ![s] = Append(@, "render")]
                       /\ stack' = stepped
                       /\ UNCHANGED <<rootKind, created, state, nextState, actions,
                                      reducerCalls, held, lastCombine, lastDone,
                                      component>>
                  [] listener = "connect" ->
                       \* Connect's listener: setState(state) renders again
                       /\ component' = [component EXCEPT
                                          !.rendered = ConnectProps(component.own, s),
                                          !.renders = @ + 1]
                       /\ stack' = stepped
                       /\ UNCHANGED <<rootKind, created, state, listeners, nextState,
                                      actions, reducerCalls, held, lastCombine,
                                      lastDone>>
                  [] OTHER ->
                       /\ stack' = stepped
                       /\ UNCHANGED <<rootKind, created, state, listeners, nextState,
                                      actions, reducerCalls, held, lastCombine,
                                      lastDone, component>>

\* A connected component is mounted under <Provider store={s}>: the
\* constructor of Connect, its first render, then componentDidMount, which
\* subscribes the listener.
Mount(s, own) ==
  /\ UNCHANGED notStore
  /\ stack = <<>>
  /\ created[s]
  /\ component = None
  /\ Subscribed < MaxListeners
  /\ component' = [store |-> s, own |-> own, rendered |-> ConnectProps(own, s),
                   renders |-> 1, since |-> Len(actions[s])]
  /\ listeners' = [listeners EXCEPT ![s] = Append(@, "connect")]
  /\ lastDone' = None
  /\ UNCHANGED <<rootKind, created, state, nextState, stack, actions,
                 reducerCalls, held, lastCombine>>

\* The innermost dispatch has visited its range and returns.
Return ==
  /\ UNCHANGED notStore
  /\ stack # <<>>
  /\ LET f == stack[Len(stack)]
     IN  /\ f.idx > f.n
         /\ stack' = SubSeq(stack, 1, Len(stack) - 1)
         /\ lastDone' = [store |-> f.store, start |-> f.start, called |-> f.called,
                         after |-> listeners[f.store]]
  /\ UNCHANGED <<rootKind, created, state, listeners, nextState, actions,
                 reducerCalls, held, lastCombine, component>>

StoreInit ==
  /\ rootKind \in {"plain", "combined"}
  /\ created = [s \in Stores |-> FALSE]
  /\ state = [s \in Stores |-> Undefined]
  /\ listeners = [s \in Stores |-> <<>>]
  /\ nextState = EmptyObject
  /\ stack = <<>>
  /\ actions = [s \in Stores |-> <<>>]
  /\ reducerCalls = [s \in Stores |-> 0]
  /\ held = None
  /\ lastCombine = None
  /\ lastDone = None
  /\ component = None

StoreNext ==
  \/ \E s \in Stores : CreateStore(s)
  \/ \E s \in Stores, a \in ActionTypes : Dispatch(s, a)
  \/ \E s \in Stores, l \in ListenerKinds : Subscribe(s, l)
  \/ \E s \in Stores : GetState(s)
  \/ CallListener
  \/ Return

\* The connected Counter on one store made from the combined reducer: the
\* state Connect passes to setState is an object.
ConnectInit == StoreInit /\ rootKind = "combined"

ConnectNext ==
  \/ CreateStore(1)
  \/ \E a \in ActionTypes : Dispatch(1, a)
  \/ \E l \in ListenerKinds : Subscribe(1, l)
  \/ \E own \in OwnProps : Mount(1, own)
  \/ CallListener
  \/ Return

----------------------------------------------------------------------------
\* ---- command-pattern cart example

\* The products of the usage example.
Beer == [id |-> 1, name |-> "Beer", price |-> 4]
Pizza == [id |-> 2, name |-> "Pizza", price |-> 10]
Products == {Beer, Pizza}

\* AddToCart(product).invoke(cart)
AddToCartInvoke(product, c) ==
  [c EXCEPT !.products = Append(@, product),
            !.totalPrice = @ + product.price]

\* AddToCart(product).undo(cart)
AddToCartUndo(product, c) ==
  [c EXCEPT !.products = SelectSeq(@, LAMBDA p : p.id # product.id),
            !.totalPrice = @ - product.price]

\* invoke(command) of useCart, with command = AddToCart(product)
Invoke(product) ==
  /\ UNCHANGED notCart
  /\ Len(history) < MaxHistory
  /\ cart' = AddToCartInvoke(product, cart)
  /\ history' = Append(history, product)
  /\ cartBefore' = cart
  /\ cartCalls' = "invoke"

\* undo() of useCart: the last command of the history is popped and undone.
Undo ==
  /\ UNCHANGED notCart
  /\ history # <<>>
  /\ cart' = AddToCartUndo(history[Len(history)], cart)
  /\ history' = SubSeq(history, 1, Len(history) - 1)
  /\ cartCalls' = IF cartCalls = "invoke" THEN "invoke, undo" ELSE "undo"
  /\ UNCHANGED cartBefore

\* undo() with an empty history: history.pop() is undefined and the call of
\* its undo throws before cart.value is assigned.
UndoThrows ==
  /\ UNCHANGED notCart
  /\ history = <<>>
  /\ cartCalls' = "undo threw"
  /\ UNCHANGED <<cart, history, cartBefore>>

CartInit ==
  /\ cart = [products |-> <<>>, discount |-> "null", totalPrice |-> 0]
  /\ history = <<>>
  /\ cartBefore = cart
  /\ cartCalls = "none"

CartNext ==
  \/ \E product \in Products : Invoke(product)
  \/ Undo
  \/ UndoThrows

----------------------------------------------------------------------------
\* ---- reactivity example

Targets == {"person1", "person2"}
Keys == {"firstName", "lastName"}

\* The values assigned to the properties.
ValuesOf(key) ==
  IF key = "firstName" THEN {"John", "David", ""} ELSE {"Doe", "Smith"}

\* The functions passed to effect(fn), named by the variable they assign.
Effects == {"fullName1", "fullName2", "welcome", "displayName"}

Unset == <<"unset">>

\* One run of effect fn on the properties p: the properties it reads, in
\* order, and the value it assigns to its variable.
\*   fullName1   = `${person1.firstName} ${person1.lastName}`
\*   fullName2   = `${person2.firstName} ${person2.lastName}`
\*   welcome     = `Mr. ${person1.lastName}`
\*   displayName = person1.firstName || person1.lastName
\* The first three are the effects of the article, which read the same
\* properties in every run; displayName is an effect whose reads depend on
\* the values read: lastName is read only when firstName is empty.
RunEffect(fn, p) ==
  CASE fn = "fullName1" ->
         [reads |-> <<<<"person1", "firstName">>, <<"person1", "lastName">>>>,
          value |-> <<p["person1"]["firstName"], " ", p["person1"]["lastName"]>>]
    [] fn = "fullName2" ->
         [reads |-> <<<<"person2", "firstName">>, <<"person2", "lastName">>>>,
          value |-> <<p["person2"]["firstName"], " ", p["person2"]["lastName"]>>]
    [] fn = "welcome" ->
         [reads |-> <<<<"person1", "lastName">>>>,
          value |-> <<"Mr. ", p["person1"]["lastName"]>>]
    [] fn = "displayName" ->
         IF p["person1"]["firstName"] # ""
         THEN [reads |-> <<<<"person1", "firstName">>>>,
               value |-> <<p["person1"]["firstName"]>>]
         ELSE [reads |-> <<<<"person1", "firstName">>, <<"person1", "lastName">>>>,
               value |-> <<p["person1"]["lastName"]>>]

\* The effects collection a property belongs to: the one `effects` array
\* (step 2), deps[key] (step 3), deps.get(target)[key] (step 4).
DepSlotOneArray(v, target, key) == <<"*", "*">>

DepSlotPerKey(v, target, key) ==
  IF v = 2 THEN <<"*", "*">> ELSE <<"*", key>>

DepSlot(v, target, key) ==
  CASE v = 2 -> <<"*", "*">>
    [] v = 3 -> <<"*", key>>
    [] v = 4 -> <<target, key>>

\* currentEffect when no effect is being registered
Null == "null"

\* track(target, key) with the given currentEffect: the effects collections
\* afterwards.
track(v, target, key, currentEffect, d) ==
  IF currentEffect = Null THEN d
  ELSE LET slot == DepSlot(v, target, key)
           dep == IF slot \in DOMAIN d THEN d[slot] ELSE <<>>
       IN  (slot :> Append(dep, currentEffect)) @@ d

\* The get traps of the reads of one run of an effect, in order.
RECURSIVE trackAll(_, _, _, _)
trackAll(v, reads, currentEffect, d) ==
  IF reads = <<>> THEN d
  ELSE trackAll(v, Tail(reads), currentEffect,
                track(v, reads[1][1], reads[1][2], currentEffect, d))

\* callEffects(target, key): the effects dep.forEach calls, in order.
callEffects(v, target, key, d) ==
  LET slot == DepSlot(v, target, key)
  IN  IF slot \in DOMAIN d THEN d[slot] ELSE <<>>

\* The runs of the effects `fns` one after the other on the properties p, with
\* currentEffect null: the variables assigned and the properties read.
RECURSIVE runAll(_, _, _, _)
runAll(fns, p, o, read) ==
  IF fns = <<>> THEN [out |-> o, everRead |-> read]
  ELSE LET r == RunEffect(fns[1], p)
       IN  runAll(Tail(fns), p, [o EXCEPT ![fns[1]] = r.value],
                  read \cup {<<fns[1], r.reads[i][1], r.reads[i][2]>> : i \in DOMAIN r.reads})

Registered == {fn \in Effects : out[fn] # Unset}

\* effect(fn): currentEffect = fn; fn(); currentEffect = null.
Effect(fn) ==
  /\ UNCHANGED notRx
  /\ fn \notin Registered
  /\ Cardinality(Registered) < MaxEffects
  /\ LET r == RunEffect(fn, props)
     IN  /\ deps' = trackAll(version, r.reads, fn, deps)
         /\ out' = [out EXCEPT ![fn] = r.value]
         /\ everRead' = everRead \cup
              {<<fn, r.reads[i][1], r.reads[i][2]>> : i \in DOMAIN r.reads}
  /\ UNCHANGED <<version, props, lastAssign>>

\* target[key] = value on a reactive object: the set trap stores the value and
\* calls callEffects, whose effects run while currentEffect is null.
Assign(target, key, value) ==
  /\ UNCHANGED notRx
  /\ LET p == [props EXCEPT ![target][key] = value]
         fns == callEffects(version, target, key, deps)
         r == runAll(fns, p, out, everRead)
     IN  /\ props' = p
         /\ deps' = deps
         /\ out' = r.out
         /\ everRead' = r.everRead
         /\ lastAssign' = [target |-> target, key |-> key, ran |-> fns]
  /\ UNCHANGED version

\* A read of target[key] outside any effect: the get trap calls track while
\* currentEffect is null.
Read(target, key) ==
  /\ UNCHANGED notRx
  /\ deps' = track(version, target, key, Null, deps)
  /\ UNCHANGED <<version, props, out, lastAssign, everRead>>

RxInit ==
  /\ version \in {2, 3, 4}
  /\ props = [t \in Targets |->
               IF t = "person1"
               THEN [firstName |-> "John", lastName |-> "Doe"]
               ELSE [firstName |-> "David", lastName |-> "Doe"]]
  /\ deps = IF version = 2 THEN (<<"*", "*">> :> <<>>) ELSE <<>>
  /\ out = [fn \in Effects |-> Unset]
  /\ lastAssign = None
  /\ everRead = {}

RxNext ==
  \/ \E fn \in Effects : Effect(fn)
  \/ \E target \in Targets, key \in Keys : \E value \in ValuesOf(key) :
       Assign(target, key, value)
  \/ \E target \in Targets, key \in Keys : Read(target, key)

----------------------------------------------------------------------------
\* ---- optimistic todo list example (TodoListContainer of "The optimistic UI
\* with React")

\* The names typed into the form.
TodoNames == {"a", "b"}

\* An item of the list is {id, name}. The fields `req` and `from` are history:
\* the save request the object was made for, and whether handleAddTodo made it
\* ("predicted") or the API returned it ("api"). The code reads neither.
Todo(id, name, req, from) == [id |-> id, name |-> name, req |-> req, from |-> from]

\* The fake id: -(state.todos.length + 1). The variant starts from the length.
PredictedIdFromLength(ts) == -Len(ts)
PredictedId(ts) == -(Len(ts) + 1)

\* [...state.todos, { id: -(state.todos.length + 1), name }]
AddPredicted(ts, name, req) == Append(ts, Todo(PredictedId(ts), name, req, "predicted"))

\* saveRequest resolves with the todo the API stored: the API numbers the
\* todos 1, 2, ... and keeps the submitted name.
ReceivedTodo(p, count) == Todo(count + 1, p.name, p.req, "api")

\* state.todos.map(todo => todo.name === receivedTodo.name ? receivedTodo : todo)
ReplaceByName(ts, receivedTodo) ==
  [i \in 1..Len(ts) |-> IF ts[i].name = receivedTodo.name THEN receivedTodo ELSE ts[i]]

\* state.todos.filter(todo => todo.name !== name). The variant keeps the list.
KeepAll(ts, name) == ts
FilterOutName(ts, name) == SelectSeq(ts, LAMBDA t : t.name # name)

\* render: one TodoListItem per todo, with its key, optimistic flag and text.
TodoListItems(ts) ==
  [i \in 1..Len(ts) |-> [key |-> ts[i].id, optimistic |-> ts[i].id < 0, children |-> ts[i].name]]

\* handleAddTodo(name): the predicted item is added and the request is sent.
handleAddTodo(name) ==
  /\ requests < MaxRequests
  /\ todos' = AddPredicted(todos, name, requests + 1)
  /\ pending' = pending \cup {[req |-> requests + 1, name |-> name]}
  /\ requests' = requests + 1
  /\ lastTodo' = [op |-> "add", req |-> requests + 1, name |-> name, before |-> todos,
                  received |-> None]
  /\ UNCHANGED saved
  /\ UNCHANGED notTodo

\* The promise of request p is fulfilled: the `then` callback runs.
SaveResolved(p) ==
  /\ p \in pending
  /\ todos' = ReplaceByName(todos, ReceivedTodo(p, saved))
  /\ pending' = pending \ {p}
  /\ saved' = saved + 1
  /\ lastTodo' = [op |-> "success", req |-> p.req, name |-> p.name, before |-> todos,
                  received |-> ReceivedTodo(p, saved)]
  /\ UNCHANGED requests
  /\ UNCHANGED notTodo

\* The promise of request p is rejected: the `catch` callback runs.
SaveRejected(p) ==
  /\ p \in pending
  /\ todos' = FilterOutName(todos, p.name)
  /\ pending' = pending \ {p}
  /\ lastTodo' = [op |-> "failure", req |-> p.req, name |-> p.name, before |-> todos,
                  received |-> None]
  /\ UNCHANGED <<requests, saved>>
  /\ UNCHANGED notTodo

TodoInit ==
  /\ todos = <<>>
  /\ pending = {}
  /\ requests = 0
  /\ saved = 0
  /\ lastTodo = None

TodoNext ==
  \/ \E name \in TodoNames : handleAddTodo(name)
  \/ \E p \in pending : SaveResolved(p)
  \/ \E p \in pending : SaveRejected(p)

----------------------------------------------------------------------------
\* ---- the blog: articles and the post page template

\* null, as GraphQL returns it for a field the front matter does not have and
\* as pageContext carries it for a missing neighbour.
JsNull == [tag |-> "null"]

\* An article: its slug, the fields of its front-matter block and its
\* excerpt. The variant loses the date.
ArticleUndated(slug, frontmatter) ==
  [slug |-> slug,
   frontmatter |-> [k \in DOMAIN frontmatter \ {"date"} |-> frontmatter[k]],
   excerpt |-> "excerpt of " \o slug]

Article(slug, frontmatter) ==
  [slug |-> slug, frontmatter |-> frontmatter, excerpt |-> "excerpt of " \o slug]

\* The articles of the repository with the fields of their front matter
\* (descriptions shortened to their first words; the slug of an article whose
\* directory name is not known is made from its title).
Articles ==
  { Article("/how-to-implement-netflix-slider-with-react-and-hooks/",
            [title |-> "How to implement Netflix slider with React and hooks",
             date |-> "2019-03-07T22:40:32.169Z",
             description |-> "Something about Netflix UI"]),
    Article("/how-to-create-your-own-redux/",
            [title |-> "How to create your own Redux",
             date |-> "2018-09-23T22:12:03.284Z",
             description |-> "Are you a beginner in the react world?"]),
    Article("/blockchain-is-a-scam/",
            [title |-> "Blockchain is a scam. Blockchain is only hype.",
             date |-> "2020-02-03T22:12:03.284Z",
             description |-> "What's wrong with the blockchain?"]),
    Article("/how-to-get-rid-of-unnecessary-props/",
            [title |-> "How to get rid of unnecessary props in React.js",
             date |-> "2020-05-16T22:40:32.169Z",
             description |-> "Using useContext and useReducer"]),
    Article("/the-optimistic-ui-with-react/",
            [title |-> "The optimistic UI with React",
             date |-> "2018-11-09T23:46:37.121Z",
             description |-> "Going through the Optimistic UI approach"]),
    Article("/using-command-pattern-with-vue-composition-api/",
            [title |-> "Using command pattern with vue composition-API",
             date |-> "2020-08-05T23:46:37.121Z"]),
    Article("/vue-3-reactivity-in-depth/",
            [title |-> "Vue 3 reactivity in depth",
             date |-> "2020-04-28T23:46:37.121Z"]) }

\* A front-matter field as pageQuery returns it: null when the block lacks it.
FrontmatterField(a, k) ==
  IF k \in DOMAIN a.frontmatter THEN Str(a.frontmatter[k]) ELSE JsNull

\* data.markdownRemark of pageQuery for article a.
markdownRemark(a) ==
  [fields |-> [slug |-> a.slug],
   excerpt |-> Str(a.excerpt),
   frontmatter |-> [title |-> FrontmatterField(a, "title"),
                    date |-> FrontmatterField(a, "date"),
                    description |-> FrontmatterField(a, "description")]]

\* The posts the template is given: the articles as they are, and the same
\* with `description: ""` in the front matter.
WithEmptyDescription(post) == [post EXCEPT !.frontmatter.description = Str("")]

Posts ==
  {markdownRemark(a) : a \in Articles}
    \cup {WithEmptyDescription(markdownRemark(a)) : a \in Articles}

\* What JavaScript takes as true: not null, undefined or the empty string.
Truthy(v) == v # JsNull /\ v # Undefined /\ v # Str("")

\* a || b. The variant is a ?? b.
OrElseNullish(a, b) == IF a # JsNull THEN a ELSE b

OrElse(a, b) == IF Truthy(a) THEN a ELSE b

\* {node && <Link to={node.fields.slug} rel={rel}>{node.frontmatter.title}</Link>}
NavLink(node, rel) ==
  IF Truthy(node)
  THEN [to |-> node.fields.slug, rel |-> rel, title |-> node.frontmatter.title]
  ELSE JsNull

\* BlogPostTemplate({data, pageContext}): the props of Seo and the two links.
BlogPostTemplate(post, pageContext) ==
  [seoTitle |-> post.frontmatter.title,
   seoDescription |-> OrElse(post.frontmatter.description, post.excerpt),
   heading |-> post.frontmatter.title,
   postDate |-> post.frontmatter.date,
   prev |-> NavLink(pageContext.previous, "prev"),
   next |-> NavLink(pageContext.next, "next")]

\* The page is rendered.
RenderPage ==
  /\ html = None
  /\ html' = BlogPostTemplate(page.post, page.pageContext)
  /\ UNCHANGED page
  /\ UNCHANGED notBlog

\* A page of the site: an article, the post read from it and its neighbours.
BlogInit ==
  /\ \E a \in Articles, previous \in Posts \cup {JsNull}, next \in Posts \cup {JsNull} :
       \E post \in {markdownRemark(a), WithEmptyDescription(markdownRemark(a))} :
         page = [article |-> a, post |-> post,
                 pageContext |-> [previous |-> previous, next |-> next]]
  /\ html = None

BlogNext == RenderPage

----------------------------------------------------------------------------
\* ---- slider example (Slider, Item, useSizeElement, useSliding)

PADDINGS == 110

\* JavaScript numbers: the integers the example computes with, and Infinity,
\* -Infinity and NaN, which the division by an element width of 0 produces.
\* Infinity stands above every integer the model reaches.
Infinity == 1000000
NegInfinity == -Infinity
NaN == Infinity + 1

JsAdd(a, b) ==
  CASE a = NaN \/ b = NaN -> NaN
    [] a = Infinity -> IF b = NegInfinity THEN NaN ELSE Infinity
    [] a = NegInfinity -> IF b = Infinity THEN NaN ELSE NegInfinity
    [] b = Infinity \/ b = NegInfinity -> b
    [] OTHER -> a + b

JsNegate(a) == IF a = NaN THEN NaN ELSE -a

JsSubtract(a, b) == JsAdd(a, JsNegate(b))

\* a < b: false when an operand is NaN.
JsLess(a, b) == a # NaN /\ b # NaN /\ a < b

\* Math.floor(a / b) for integers a and b >= 0.
FloorOfQuotient(a, b) ==
  IF b # 0 THEN a \div b
  ELSE IF a > 0 THEN Infinity ELSE IF a < 0 THEN NegInfinity ELSE NaN

\* The widths the browser reports (clientWidth) for the container and for an
\* item, in pixels.
ContainerClientWidths == {60, 110, 150, 310, 410}
ElementClientWidths == {0, 100, 150}

\* The movies of the Items given to Slider as children.
Movies(count) == {[id |-> i] : i \in 0..(count - 1)}

\* const hasPrev = distance < 0
hasPrev(d) == JsLess(d, 0)

\* const hasNext = (viewed + totalInViewport) < countElements. The variant
\* compares with <=.
hasNextInclusive(v, total, count) ==
  LET sum == JsAdd(v, total) IN sum # NaN /\ sum <= count

hasNext(v, total, count) == JsLess(JsAdd(v, total), count)

\* 'slider--open': currentSlide != null
sliderOpen(slide) == slide # JsNull /\ slide # Undefined

\* {currentSlide && <Content movie={currentSlide} .../>}: the movie of the
\* Content panel, null when the panel is not rendered.
Content(slide) == IF Truthy(slide) THEN slide ELSE JsNull

\* Item: const isActive = currentSlide && currentSlide.id === movie.id. The
\* variant leaves the comparison out.
isActiveAnyItem(slide, movie) == Truthy(slide)

isActive(slide, movie) == Truthy(slide) /\ slide.id = movie.id

\* The effects of a render run: useSizeElement's, then useSliding's, which
\* divides by the elementWidth of that render. Both have a ref's current
\* element as dependency: they run after the first render, when the refs are
\* set, and after the second, which sees the refs changed, and not again.
RunEffects ==
  /\ effectsRun < 2
  /\ effectsRun' = effectsRun + 1
  /\ width' = dom.element
  /\ containerWidth' = dom.container - PADDINGS
  /\ totalInViewport' = FloorOfQuotient(dom.container - PADDINGS, width)
  /\ UNCHANGED <<dom, distance, viewed, presses, currentSlide, lastSlide, pressing>>
  /\ UNCHANGED notSlider

\* The prev button, rendered while hasPrev, is pressed.
handlePrev ==
  /\ presses < MaxPresses
  /\ hasPrev(distance)
  /\ viewed' = JsSubtract(viewed, totalInViewport)
  /\ distance' = distance + containerWidth
  /\ presses' = presses + 1
  /\ UNCHANGED <<dom, effectsRun, width, containerWidth, totalInViewport,
                 currentSlide, lastSlide, pressing>>
  /\ UNCHANGED notSlider

\* The next button, rendered while hasNext, is pressed.
handleNext ==
  /\ presses < MaxPresses
  /\ hasNext(viewed, totalInViewport, dom.count)
  /\ viewed' = JsAdd(viewed, totalInViewport)
  /\ distance' = distance - containerWidth
  /\ presses' = presses + 1
  /\ UNCHANGED <<dom, effectsRun, width, containerWidth, totalInViewport,
                 currentSlide, lastSlide, pressing>>
  /\ UNCHANGED notSlider

\* onSelectSlide(movie), called by the ShowDetailsButton of an Item.
handleSelect(movie) ==
  /\ currentSlide' = movie
  /\ lastSlide' = [op |-> "select", movie |-> movie]
  /\ UNCHANGED <<dom, effectsRun, width, containerWidth, distance, totalInViewport,
                 viewed, presses, pressing>>
  /\ UNCHANGED notSlider

\* onCloseSlide(), called by the Content panel or by another consumer of the
\* context.
handleClose ==
  /\ currentSlide' = JsNull
  /\ lastSlide' = [op |-> "close", movie |-> JsNull]
  /\ UNCHANGED <<dom, effectsRun, width, containerWidth, distance, totalInViewport,
                 viewed, presses, pressing>>
  /\ UNCHANGED notSlider

\* The first render of Slider: activeSlide is a movie, null or not given.
SliderStart ==
  /\ dom \in [container : ContainerClientWidths, element : ElementClientWidths,
              count : 0..MaxItems]
  /\ effectsRun = 0
  /\ width = 0
  /\ containerWidth = 0
  /\ distance = 0
  /\ totalInViewport = 0
  /\ viewed = 0
  /\ presses = 0
  /\ currentSlide \in Movies(dom.count) \cup {JsNull, Undefined}
  /\ lastSlide = None

SliderInit == SliderStart /\ pressing = "any"

SliderNext ==
  \/ RunEffects
  \/ handlePrev
  \/ handleNext
  \/ \E movie \in Movies(dom.count) : handleSelect(movie)
  \/ handleClose

\* The visitor works through the pages once the widths are measured: the
\* next button is pressed while it is offered, and when it is gone the prev
\* button is pressed while it is offered.
Measured == effectsRun = 2

NextPressed == pressing = "next" /\ Measured /\ handleNext

TurnBack ==
  /\ pressing = "next"
  /\ Measured
  /\ ~hasNext(viewed, totalInViewport, dom.count)
  /\ pressing' = "prev"
  /\ UNCHANGED <<dom, effectsRun, width, containerWidth, distance, totalInViewport,
                 viewed, presses, currentSlide, lastSlide>>
  /\ UNCHANGED notSlider

PrevPressed == pressing = "prev" /\ handlePrev

PressingInit == SliderStart /\ pressing = "next"

PressingNext ==
  \/ RunEffects
  \/ NextPressed
  \/ TurnBack
  \/ PrevPressed

\* React runs the effects of a render, and the visitor goes on pressing.
PressingFairness ==
  /\ WF_vars(RunEffects)
  /\ WF_vars(NextPressed)
  /\ WF_vars(TurnBack)
  /\ WF_vars(PrevPressed)

----------------------------------------------------------------------------
\* ---- specifications

\* The initial condition of an example whose actions a specification leaves out.
StoreIdle == StoreInit /\ rootKind = "plain"
RxIdle == RxInit /\ version = 4
\* No page is being built.
BlogIdle == page = None /\ html = None
SliderIdle ==
  /\ SliderInit
  /\ dom = [container |-> 310, element |-> 100, count |-> 0]
  /\ currentSlide = JsNull

InitStore == StoreInit /\ CartInit /\ RxIdle /\ TodoInit /\ BlogIdle /\ SliderIdle
InitCart == StoreIdle /\ CartInit /\ RxIdle /\ TodoInit /\ BlogIdle /\ SliderIdle
InitRx == StoreIdle /\ CartInit /\ RxInit /\ TodoInit /\ BlogIdle /\ SliderIdle
InitTodo == StoreIdle /\ CartInit /\ RxIdle /\ TodoInit /\ BlogIdle /\ SliderIdle
InitConnect == ConnectInit /\ CartInit /\ RxIdle /\ TodoInit /\ BlogIdle /\ SliderIdle
InitBlog == StoreIdle /\ CartInit /\ RxIdle /\ TodoInit /\ BlogInit /\ SliderIdle
InitSlider == StoreIdle /\ CartInit /\ RxIdle /\ TodoInit /\ BlogIdle /\ SliderInit
InitPressing == StoreIdle /\ CartInit /\ RxIdle /\ TodoInit /\ BlogIdle /\ PressingInit

SpecStore == InitStore /\ [][StoreNext]_vars

SpecCart == InitCart /\ [][CartNext]_vars

SpecRx == InitRx /\ [][RxNext]_vars

SpecTodo == InitTodo /\ [][TodoNext]_vars

SpecConnect == InitConnect /\ [][ConnectNext]_vars

SpecBlog == InitBlog /\ [][BlogNext]_vars

SpecSlider == InitSlider /\ [][SliderNext]_vars

SpecPressing == InitPressing /\ [][PressingNext]_vars /\ PressingFairness

----------------------------------------------------------------------------
\* ---- Redux store example: properties

\* C1: every dispatch calls every listener that was subscribed before the
\* dispatch began, once per subscribe call and in subscription order: while a
\* dispatch runs, the listeners called so far are the first of those
\* subscribed at its start, and when it returns they are all of them, in the
\* same order, before any listener subscribed later.
C1_EveryListenerNotified ==
  /\ \A i \in DOMAIN stack : IsPrefix(stack[i].called, stack[i].start)
  /\ lastDone # None => IsPrefix(lastDone.start, lastDone.called)

\* A dispatch returned that had two different listeners to call and during
\* which a further listener was subscribed.
C1_Witness ==
  /\ lastDone # None
  /\ Len(lastDone.start) >= 2
  /\ lastDone.start[1] # lastDone.start[2]
  /\ Len(lastDone.after) > Len(lastDone.start)

\* The root reducer as a function of the contents of the state.
PureRoot(kind, contents, action) ==
  IF kind = "plain" THEN counter(contents, action)
  ELSE [k \in {reducers[i].key : i \in {j \in DOMAIN reducers : reducers[j].isFunction}} |->
          ReducerApply(k, IF contents = Undefined THEN Undefined ELSE contents[k],
                       action)]

\* rootReducer(...rootReducer(rootReducer(undefined, a1), a2)..., an)
RECURSIVE FoldActions(_, _)
FoldActions(kind, acts) ==
  IF acts = <<>> THEN Undefined
  ELSE PureRoot(kind, FoldActions(kind, SubSeq(acts, 1, Len(acts) - 1)),
                acts[Len(acts)])

\* The root reducer of store s is called by no other store.
OwnReducer(s) == rootKind = "plain" \/ \A t \in Stores \ {s} : ~created[t]

\* C2: after createStore and any sequence of dispatches, getState() shows the
\* root reducer folded over {} and the actions dispatched, in their order, and
\* the root reducer was called once per dispatch; getState and subscribe
\* change neither.
C2_StateIsFoldOfActions ==
  \A s \in Stores :
    created[s] /\ OwnReducer(s) =>
      /\ actions[s] # <<>> /\ actions[s][1] = NoType
      /\ Contents(state[s]) = FoldActions(rootKind, actions[s])
      /\ reducerCalls[s] = Len(actions[s])

\* A store created from a combined reducer, with listeners, on which two
\* different actions were dispatched after its creation and of which getState
\* was called.
C2_Witness ==
  \E s \in Stores :
    /\ rootKind = "combined"
    /\ created[s] /\ OwnReducer(s) /\ stack = <<>>
    /\ Len(actions[s]) >= 3 /\ actions[s][2] # actions[s][3]
    /\ listeners[s] # <<>>
    /\ held # None /\ held.store = s

\* C3: a call of the combined reducer calls every function-valued entry of
\* reducers once, with its own slice of the state given (undefined when the
\* state is missing) and the action, and returns an object that holds under
\* each of these keys what that reducer returned, and no other key.
C3_CombinedCallsEveryReducer ==
  lastCombine # None =>
    LET c == lastCombine
        fnKeys == {reducers[i].key : i \in {j \in DOMAIN reducers : reducers[j].isFunction}}
        own(k) == IF c.stateArg = Undefined \/ k \notin DOMAIN c.before
                  THEN Undefined ELSE c.before[k]
    IN  /\ DOMAIN c.result = fnKeys
        /\ \A k \in fnKeys : c.result[k] = ReducerApply(k, own(k), c.action)
        /\ Len(c.calls) = Cardinality(fnKeys)
        /\ \A k \in fnKeys : \E i \in DOMAIN c.calls : c.calls[i].key = k
        /\ \A i \in DOMAIN c.calls : c.calls[i].slice = own(c.calls[i].key)

\* The combined reducer was called on a missing state after it had produced
\* a state with a counter other than 0.
C3_Witness ==
  /\ lastCombine # None
  /\ lastCombine.stateArg = Undefined
  /\ "counter" \in DOMAIN lastCombine.before
  /\ lastCombine.before["counter"] # Num(0)

\* C4: a state value obtained from getState() keeps its contents whatever is
\* dispatched afterwards, on this store or on another one.
C4_EarlierStatesUntouched ==
  held # None => Contents(held.value) = held.contents

C19_ListenerGetsCurrentState ==
  \A i \in DOMAIN stack : \A k \in DOMAIN stack[i].passed :
    stack[i].passed[k].arg = stack[i].passed[k].getState

\* A dispatch called a listener after an earlier listener of the same round
\* had dispatched: the state passed is not the one this dispatch produced.
C19_Witness ==
  \E i \in DOMAIN stack : \E k \in DOMAIN stack[i].passed :
    /\ k > 1
    /\ stack[i].called[k - 1] = "redispatch"
    /\ stack[i].passed[k].arg # stack[i].reduced

----------------------------------------------------------------------------
\* ---- command-pattern cart example: properties

\* C5: invoke(AddToCart(product)) followed by undo() leaves the cart as it
\* was before the invoke: the same products in the same order, the same
\* totalPrice and the same discount.
C5_UndoRevertsInvoke ==
  cartCalls = "invoke, undo" => cart = cartBefore

RECURSIVE SumOfPrices(_)
SumOfPrices(products) ==
  IF products = <<>> THEN 0
  ELSE products[1].price + SumOfPrices(Tail(products))

\* C6: cart.totalPrice is the sum of the prices of the products in
\* cart.products.
C6_TotalPriceIsSum ==
  cart.totalPrice = SumOfPrices(cart.products)

----------------------------------------------------------------------------
\* ---- reactivity example: properties

Count(seq, x) == Cardinality({i \in DOMAIN seq : seq[i] = x})

\* C7: with the dependencies kept per object and property, after any sequence
\* of assignments the value an effect registered with effect(fn) assigned to
\* its variable is the value fn computes from the current properties of the
\* reactive objects.
C7_EffectValuesAreCurrent ==
  version = 4 =>
    \A fn \in Registered : out[fn] = RunEffect(fn, props).value

\* C8: with per-property dependencies, an assignment to a property runs only
\* effects that read a property of that name.
C8_OnlyEffectsOfTheProperty ==
  version \in {3, 4} /\ lastAssign # None =>
    \A i \in DOMAIN lastAssign.ran :
      \E t \in Targets : <<lastAssign.ran[i], t, lastAssign.key>> \in everRead

\* firstName was assigned while fullName1 and welcome, which reads lastName
\* only, were registered, and fullName1 ran.
C8_Witness ==
  /\ version = 3
  /\ {"fullName1", "welcome"} \subseteq Registered
  /\ lastAssign # None /\ lastAssign.key = "firstName"
  /\ lastAssign.ran = <<"fullName1">>

\* C9: with per-object dependencies, an assignment to a property of a reactive
\* object runs only effects that read that property of that object.
C9_OnlyEffectsOfTheObject ==
  version = 4 /\ lastAssign # None =>
    \A i \in DOMAIN lastAssign.ran :
      <<lastAssign.ran[i], lastAssign.target, lastAssign.key>> \in everRead

\* person1.firstName was assigned while fullName1 and fullName2, which reads
\* the properties of the same names of person2, were registered, and
\* fullName1 ran.
C9_Witness ==
  /\ version = 4
  /\ {"fullName1", "fullName2"} \subseteq Registered
  /\ lastAssign # None
  /\ lastAssign.target = "person1" /\ lastAssign.key = "firstName"
  /\ lastAssign.ran = <<"fullName1">>

\* C10: with currentEffect, an effect is stored at most once in an effects
\* collection, and an assignment runs it at most once.
C10_EffectStoredOnce ==
  /\ \A slot \in DOMAIN deps : \A fn \in Effects : Count(deps[slot], fn) <= 1
  /\ lastAssign # None => \A fn \in Effects : Count(lastAssign.ran, fn) <= 1

----------------------------------------------------------------------------
\* ---- optimistic todo list example: properties

\* The item handleAddTodo made for request r, while it is still in the list.
IsPredictionOf(t, r) == t.from = "predicted" /\ t.req = r

\* C11: handleAddTodo(name) makes an item with that name and a negative id
\* appear in the list at once, while the save request is not settled: right
\* after the handler the list is the list before it followed by that item, and
\* the request is still in flight.
C11_PredictionAppearsAtOnce ==
  lastTodo # None /\ lastTodo.op = "add" =>
    /\ Len(todos) = Len(lastTodo.before) + 1
    /\ SubSeq(todos, 1, Len(lastTodo.before)) = lastTodo.before
    /\ todos[Len(todos)].name = lastTodo.name
    /\ todos[Len(todos)].id < 0
    /\ [req |-> lastTodo.req, name |-> lastTodo.name] \in pending

\* handleAddTodo ran on a list that held a todo of the API and a prediction.
C11_Witness ==
  /\ lastTodo # None
  /\ lastTodo.op = "add"
  /\ \E i, j \in DOMAIN lastTodo.before :
        lastTodo.before[i].id > 0 /\ lastTodo.before[j].id < 0

\* C12: when a save request succeeds, the predicted item made for that request
\* is replaced, where it stands, by the todo received from the API, and every
\* other item of the list (the confirmed todos and the predictions of other
\* requests in flight) is the same as before.
C12_OnlyThePredictionReplaced ==
  lastTodo # None /\ lastTodo.op = "success" =>
    /\ Len(todos) = Len(lastTodo.before)
    /\ \A i \in DOMAIN lastTodo.before :
         todos[i] = IF IsPredictionOf(lastTodo.before[i], lastTodo.req)
                    THEN lastTodo.received
                    ELSE lastTodo.before[i]

\* C13: when a save request fails, the predicted item made for that request is
\* removed from the list and every other item stays, in the same order: the
\* confirmed todos and the predictions of other requests in flight, those with
\* the same name included.
C13_OnlyThePredictionRolledBack ==
  lastTodo # None /\ lastTodo.op = "failure" =>
    todos = SelectSeq(lastTodo.before, LAMBDA t : ~IsPredictionOf(t, lastTodo.req))

\* C14: with an API that returns todos of positive id and of the submitted
\* name, at every moment an item of the list has a negative id exactly when
\* handleAddTodo made it and its save request is still in flight, it has a
\* positive id exactly when the API returned it, and the items rendered as
\* optimistic are those of negative id.
C14_NegativeIdIsPendingPrediction ==
  \A i \in DOMAIN todos :
    /\ todos[i].id < 0 <=>
         /\ todos[i].from = "predicted"
         /\ \E p \in pending : p.req = todos[i].req
    /\ todos[i].id > 0 <=> todos[i].from = "api"
    /\ TodoListItems(todos)[i].optimistic <=> todos[i].id < 0

\* A request failed and one succeeded, and the list holds a todo of the API
\* beside the prediction of a request in flight.
C14_Witness ==
  /\ requests > saved + Cardinality(pending)
  /\ \E i, j \in DOMAIN todos :
        /\ todos[i].from = "api"
        /\ todos[j].from = "predicted"
        /\ TodoListItems(todos)[j].optimistic

----------------------------------------------------------------------------
\* ---- the blog: properties

FrontMatterFields == {"title", "date", "description"}

\* C16 as stated: every article of the blog has a front-matter block that
\* contains all three fields title, date and description.
C16_AllThreeFields ==
  \A k \in FrontMatterFields : k \in DOMAIN page.article.frontmatter

\* C16, amended: every article of the blog has a front-matter block that
\* contains title and date; it contains description too, except in the
\* articles "Using command pattern with vue composition-API" and "Vue 3
\* reactivity in depth", for which pageQuery returns a null description.
C16_TitleAndDate ==
  /\ "title" \in DOMAIN page.article.frontmatter
  /\ "date" \in DOMAIN page.article.frontmatter
  /\ "description" \notin DOMAIN page.article.frontmatter =>
       /\ page.article.slug \in {"/using-command-pattern-with-vue-composition-api/",
                                 "/vue-3-reactivity-in-depth/"}
       /\ markdownRemark(page.article).frontmatter.description = JsNull

\* The page of an article without description has been rendered.
C16_Witness ==
  /\ html # None
  /\ "description" \notin DOMAIN page.article.frontmatter
  /\ page.post = markdownRemark(page.article)

\* C18: BlogPostTemplate passes to Seo the front-matter description when it is
\* a non-empty string and the excerpt of the post otherwise, and it renders
\* the link to the previous (next) post exactly when pageContext.previous
\* (pageContext.next) is set, to that post's slug and with that post's title.
C18_SeoDescriptionAndLinks ==
  html # None =>
    LET description == page.post.frontmatter.description
        previous == page.pageContext.previous
        next == page.pageContext.next
    IN  /\ html.seoDescription =
             IF description \notin {JsNull, Str("")} THEN description
             ELSE page.post.excerpt
        /\ html.prev # JsNull <=> previous # JsNull
        /\ html.next # JsNull <=> next # JsNull
        /\ previous # JsNull =>
             /\ html.prev.to = previous.fields.slug
             /\ html.prev.title = previous.frontmatter.title
        /\ next # JsNull =>
             /\ html.next.to = next.fields.slug
             /\ html.next.title = next.frontmatter.title

\* A page was rendered whose post has an empty description, a previous post
\* and no next post.
C18_Witness ==
  /\ html # None
  /\ page.post.frontmatter.description = Str("")
  /\ page.pageContext.previous # JsNull
  /\ page.pageContext.next = JsNull
  /\ html.seoDescription = page.post.excerpt

----------------------------------------------------------------------------
\* ---- slider example: properties

\* The Items marked active.
ActiveItems == {movie \in Movies(dom.count) : isActive(currentSlide, movie)}

\* C17: in Slider, after onSelectSlide(movie) the current slide is that movie
\* and after onCloseSlide() it is null; the Content panel is rendered exactly
\* while a slide is selected, and at every moment at most one Item is marked
\* active: the one whose movie.id is the id of the current slide.
C17_CurrentSlide ==
  /\ lastSlide # None /\ lastSlide.op = "select" => currentSlide = lastSlide.movie
  /\ lastSlide # None /\ lastSlide.op = "close" => currentSlide = JsNull
  /\ Content(currentSlide) # JsNull <=> currentSlide \in Movies(dom.count)
  /\ Content(currentSlide) # JsNull => Content(currentSlide) = currentSlide
  /\ Cardinality(ActiveItems) <= 1
  /\ ActiveItems =
       IF currentSlide \in Movies(dom.count)
       THEN {movie \in Movies(dom.count) : movie.id = currentSlide.id}
       ELSE {}

\* A movie other than the first was selected among three or more Items.
C17_Witness ==
  /\ lastSlide # None
  /\ lastSlide.op = "select"
  /\ dom.count >= 3
  /\ currentSlide.id > 0
  /\ ActiveItems = {currentSlide}

\* C20: in useSliding, with a positive measured container width and element
\* width and countElements > 0, Prev being pressed only while hasPrev and
\* Next only while hasNext, every reachable state has an integer k >= 0 with
\* viewed = k * totalInViewport and distance = -k * containerWidth; hence
\* distance <= 0, 0 <= viewed < countElements, and hasPrev holds exactly when
\* k > 0.
C20_WholePagesViewed ==
  containerWidth > 0 /\ width > 0 /\ dom.count > 0 =>
    \E k \in 0..presses :
      /\ viewed = k * totalInViewport
      /\ distance = -k * containerWidth
      /\ distance <= 0
      /\ 0 <= viewed
      /\ viewed < dom.count
      /\ hasPrev(distance) <=> k > 0

\* Next was pressed until the last page, two pages or more from the start,
\* was reached.
C20_Witness ==
  /\ containerWidth > 0
  /\ width > 0
  /\ totalInViewport >= 1
  /\ viewed >= 2 * totalInViewport
  /\ distance = -2 * containerWidth
  /\ hasPrev(distance)
  /\ ~hasNext(viewed, totalInViewport, dom.count)

\* The last page: the widths are measured and the next button is gone.
LastPage == Measured /\ ~hasNext(viewed, totalInViewport, dom.count)

\* The first page again: the prev button is gone, nothing is viewed or moved.
FirstPage == ~hasPrev(distance) /\ viewed = 0 /\ distance = 0

\* C21: in useSliding, for any measured container width and element width,
\* pressing Next while hasNext is true makes hasNext false after finitely many
\* presses, and pressing Prev while hasPrev is true then makes hasPrev false
\* with viewed = 0 and distance = 0. A press of Next moves on by one page of
\* totalInViewport items and the page size stays as measured, so the presses
\* end, if ever, within countElements of them, and the way back takes as many.
\* For a row of Items of a positive width: once Next has been pressed
\* countElements times the next button is gone; once the visitor has turned
\* back and countElements presses more have been made the prev button is
\* gone; and when it is gone nothing is viewed or moved.
C21_PagingEnds ==
  width > 0 /\ dom.count > 0 =>
    /\ pressing = "next" /\ Measured /\ presses >= dom.count => LastPage
    /\ pressing = "prev" /\ presses >= 2 * dom.count => ~hasPrev(distance)
    /\ pressing = "prev" /\ ~hasPrev(distance) => FirstPage

\* The same as a property of the visitor's whole walk: the last page is
\* reached, and from the last page the first page again.
LastPageThenFirstPage ==
  /\ <>LastPage
  /\ (pressing = "prev") ~> FirstPage

====
